---------------------------- MODULE Spec2Model ----------------------------
(***************************************************************************)
(* easySFS (src/easySFS.py): per-individual genotype calls are turned into *)
(* per-population allele counts, projected into 1-D / 2-D / N-D site       *)
(* frequency spectra, re-written in the dadi and fastsimcoal2 file         *)
(* formats, and optionally bootstrapped.                                   *)
(*                                                                         *)
(* The functions of the script are operators of this module; each          *)
(* specification below runs some of them from the inputs they can get:     *)
(*   SpecCounts  make_datadict on a genotype row                           *)
(*   SpecPairs   dadi_twoD_sfs_combinations, one loop iteration per step   *)
(*   Spec        main(): the order of validation, directory and file work  *)
(*   SpecBoot    block indexing and bootstrap_resampling of one replicate  *)
(*   SpecSeed    two runs of the program on the same input and seed        *)
(*   SpecPar     the replicate workers of the parallel bootstrap           *)
(*                                                                         *)
(* Text is modelled as a sequence of one-character strings, so that        *)
(* splitting and comparing genotype fields is done as the code does it.    *)
(***************************************************************************)
EXTENDS Integers, Sequences, FiniteSets, TLC

VARIABLES
    pc,          \* position of the running function
    args,        \* the parsed command line (argparse namespace), as a record
    pops,        \* OrderedDict population -> list of individuals, as a sequence of records
    genotypes,   \* the genotype table (pandas DataFrame), a sequence of rows
    dd,          \* the dadi data dictionary built by make_datadict
    proj,        \* the sample-size vector given with --proj, a sequence of integers
    files,       \* the output files: path -> content
    pair_i,      \* dadi_twoD_sfs_combinations: the index i of its loop over popPairs
    fs_calls,    \* the calls of dadi.Spectrum.from_data_dict made so far
    block_index, \* main: the block index of every row of genotypes, or None
    rep,         \* bootstrap_resampling: the replicate index
    resampled_index, \* bootstrap_resampling: the (chromosome, block) pairs drawn
    resampled,   \* bootstrap_resampling: the resampled table
    workers,     \* the replicate workers: replicate -> position and local variables
    writes,      \* the paths opened for writing, in order (main); which replicate
                 \* created or wrote which path (the replicate workers)
    vcf,         \* the data lines of the input VCF file
    runs,        \* two runs of the program: run -> position, table and replicate outputs
    exit_code,   \* the exit status of main, None while it runs
    indnames,    \* the sample columns of the VCF header
    stdout       \* what main has printed: a sequence of messages

vars == <<pc, args, pops, genotypes, dd, proj, files, pair_i, fs_calls,
          block_index, rep, resampled_index, resampled, workers, writes,
          vcf, runs, exit_code, indnames, stdout>>

\* A variable a specification does not use keeps this value.
Unused == "unused"

\* The variables of the bootstrap, for the specifications that leave them alone.
bootVars == <<block_index, rep, resampled_index, resampled>>
BootUnused ==
    block_index = Unused /\ rep = Unused /\ resampled_index = Unused /\ resampled = Unused

parVars == <<workers, writes>>
ParUnused == workers = Unused /\ writes = Unused

seedVars == <<vcf, runs>>
SeedUnused == vcf = Unused /\ runs = Unused

mainVars == <<exit_code, indnames, stdout>>
MainUnused == exit_code = Unused /\ indnames = Unused /\ stdout = Unused

(***************************************************************************)
(* Generic helpers                                                         *)
(***************************************************************************)
Range(s) == {s[i] : i \in DOMAIN s}

RECURSIVE SumSeq(_)
\* Python's sum() over a list of numbers (True counts as 1).
SumSeq(s) == IF s = <<>> THEN 0 ELSE Head(s) + SumSeq(Tail(s))

\* All sequences over S with length in lo..hi.
SeqsOf(S, lo, hi) == UNION {[1..n -> S] : n \in lo..hi}

\* str() of a small non-negative integer, as text.
Digit(n) == <<"0","1","2","3","4","5","6","7","8","9">>[n + 1]
RECURSIVE Str(_)
Str(n) == IF n < 10 THEN <<Digit(n)>> ELSE Str(n \div 10) \o <<Digit(n % 10)>>

(***************************************************************************)
(* make_datadict (src/easySFS.py 283-309)                                  *)
(***************************************************************************)

\* Bounds of the inputs make_datadict is run on.
MaxInd == 2
MaxPloidy == 2

\* The genotype fields (column text of one individual in one row) that the
\* rows are drawn from: the ten recognised calls, calls followed by
\* ':'-separated annotations, missing and multi-allelic calls, an empty
\* field and a field whose genotype part is empty.
GenotypeFields ==
    { <<"0">>, <<"1">>,
      <<"0","/","0">>, <<"0","|","0">>, <<"1","/","1">>, <<"1","|","1">>,
      <<"0","/","1">>, <<"1","/","0">>, <<"0","|","1">>, <<"1","|","0">>,
      <<".","/",".">>, <<".">>, <<"0","/","2">>, <<"2","|","1">>,
      <<"0","/","1",":","9">>, <<"1","|","1",":","0","/","0">>,
      <<"0",":","1">>, <<":","0","/","0">>, <<>> }

PopNames == {"A", "B"}

\* str.split(":")[0]: the text before the first ':' (all of it when there is none).
RECURSIVE SplitColonFirst(_)
SplitColonFirst(s) ==
    IF s = <<>> THEN <<>>
    ELSE IF Head(s) = ":" THEN <<>>
    ELSE <<Head(s)>> \o SplitColonFirst(Tail(s))

\* get_populations (455-500): the populations in first-seen order, each with
\* its individuals in file order.  lines[i] is the population of individual i.
RECURSIVE PopOrder(_)
PopOrder(lines) ==
    IF lines = <<>> THEN <<>>
    ELSE LET rest == PopOrder(SubSeq(lines, 1, Len(lines) - 1))
             last == lines[Len(lines)]
         IN  IF last \in Range(rest) THEN rest ELSE Append(rest, last)

get_populations(lines) ==
    LET order == PopOrder(lines)
    IN  [k \in 1..Len(order) |->
            [name |-> order[k],
             inds |-> SelectSeq([i \in 1..Len(lines) |-> i],
                                LAMBDA i : lines[i] = order[k])]]

\* line 296: x == "0" or x == "0/0" or x == "0|0"
IsHomRef(x) == x = <<"0">> \/ x = <<"0","/","0">> \/ x = <<"0","|","0">>
\* line 297: x == "1" or x == "1/1" or x == "1|1"
IsHomAlt(x) == x = <<"1">> \/ x = <<"1","/","1">> \/ x = <<"1","|","1">>
\* line 299: x == "1/0" or x == "0/1" or x == "1|0" or x == "0|1"
IsHet(x) ==
    x = <<"1","/","0">> \/ x = <<"0","/","1">> \/ x = <<"1","|","0">> \/ x = <<"0","|","1">>

Bool2Int(b) == IF b THEN 1 ELSE 0

\* line 295: [row[x].split(":")[0] for x in pops[pop]]
pop_genotypes(row, inds) == [j \in 1..Len(inds) |-> SplitColonFirst(row.gt[inds[j]])]

\* A slip that leaves the heterozygotes out of the alternate count.
PopCallsNoHetAlt(row, inds, ploidy) ==
    LET g == pop_genotypes(row, inds)
        ref_count == SumSeq([j \in 1..Len(g) |-> Bool2Int(IsHomRef(g[j]))]) * ploidy
        alt_count == SumSeq([j \in 1..Len(g) |-> Bool2Int(IsHomAlt(g[j]))]) * ploidy
        het_count == SumSeq([j \in 1..Len(g) |-> Bool2Int(IsHet(g[j]))])
    IN  <<ref_count + het_count, alt_count>>

\* lines 295-303: the (ref_count, alt_count) pair of one population in one row.
PopCalls(row, inds, ploidy) ==
    LET g == pop_genotypes(row, inds)
        ref_count == SumSeq([j \in 1..Len(g) |-> Bool2Int(IsHomRef(g[j]))]) * ploidy
        alt_count == SumSeq([j \in 1..Len(g) |-> Bool2Int(IsHomAlt(g[j]))]) * ploidy
        het_count == SumSeq([j \in 1..Len(g) |-> Bool2Int(IsHet(g[j]))])
    IN  <<ref_count + het_count, alt_count + het_count>>

\* lines 291-303: calls, population name -> pair.
RowCalls(row, ps, ploidy) ==
    [n \in {ps[k].name : k \in DOMAIN ps} |->
        LET k == CHOOSE k \in DOMAIN ps : ps[k].name = n
        IN  PopCalls(row, ps[k].inds, ploidy)]

\* A variant that keys a record by chromosome and position only.
DDKeyNoIndex(row, i) == row.CHROM \o <<"-">> \o Str(row.POS)

\* line 305: row["#CHROM"]+"-"+row["POS"]+"-"+str(i), i counted from 0: the
\* three texts joined by '-' into one text.  CHROM is a text, POS a number
\* written in decimal.
DDKey(row, i) == row.CHROM \o <<"-">> \o Str(row.POS) \o <<"-">> \o Str(i)

\* A Python dict assignment d[k] = v.
DictPut(d, k, v) == [x \in DOMAIN d \cup {k} |-> IF x = k THEN v ELSE d[x]]

EmptyDict == [x \in {} |-> 0]

RECURSIVE MakeDatadictFrom(_, _, _, _, _)
MakeDatadictFrom(g, ps, ploidy, i, acc) ==
    IF i > Len(g) THEN acc
    ELSE MakeDatadictFrom(g, ps, ploidy, i + 1,
            DictPut(acc, DDKey(g[i], i - 1),
                    [segregating |-> <<g[i].REF, g[i].ALT>>,
                     calls |-> RowCalls(g[i], ps, ploidy),
                     outgroup_allele |-> g[i].REF]))

\* lines 283-309
make_datadict(g, ps, ploidy) == MakeDatadictFrom(g, ps, ploidy, 1, EmptyDict)

\* The rows make_datadict is run on here: one variant, every combination of
\* genotype fields for the individuals.
CountRows(n) ==
    {[CHROM |-> <<"chr1">>, POS |-> 7, REF |-> "A", ALT |-> "T", gt |-> f] :
        f \in [1..n -> GenotypeFields]}

InitCounts ==
    /\ pc = "make_datadict"
    /\ \E n \in 1..MaxInd :
        /\ \E lines \in [1..n -> PopNames] : pops = get_populations(lines)
        /\ \E r \in CountRows(n) : genotypes = <<r>>
    /\ \E p \in 1..MaxPloidy : args = [ploidy |-> p]
    /\ dd = EmptyDict
    /\ proj = Unused /\ files = Unused /\ pair_i = Unused /\ fs_calls = Unused
    /\ BootUnused /\ ParUnused /\ SeedUnused /\ MainUnused

\* make_datadict(genotypes, pops, ploidy=args.ploidy)
MakeDatadict ==
    /\ pc = "make_datadict"
    /\ dd' = make_datadict(genotypes, pops, args.ploidy)
    /\ pc' = "done"
    /\ UNCHANGED <<args, pops, genotypes, proj, files, pair_i, fs_calls, bootVars, parVars, seedVars, mainVars>>

NextCounts == MakeDatadict

SpecCounts == InitCounts /\ [][NextCounts]_vars

\* The claim's counts, taken over the population's individuals as a set.
GtOf(row, ind) == SplitColonFirst(row.gt[ind])
H0(row, inds) == Cardinality({j \in DOMAIN inds : GtOf(row, inds[j]) \in
                    {<<"0">>, <<"0","/","0">>, <<"0","|","0">>}})
H1(row, inds) == Cardinality({j \in DOMAIN inds : GtOf(row, inds[j]) \in
                    {<<"1">>, <<"1","/","1">>, <<"1","|","1">>}})
HET(row, inds) == Cardinality({j \in DOMAIN inds : GtOf(row, inds[j]) \in
                    {<<"0","/","1">>, <<"1","/","0">>, <<"0","|","1">>, <<"1","|","0">>}})

\* C1: once make_datadict has run, every row has a record, and in it every
\* population's pair is (ploidy*H0 + HET, ploidy*H1 + HET), where H0, H1 and
\* HET count the population's homozygous-reference, homozygous-alternate and
\* heterozygous individuals; any other field adds nothing and the function
\* still completes.
C1_CountsExact ==
    pc = "done" =>
        \A i \in DOMAIN genotypes :
            /\ DDKey(genotypes[i], i - 1) \in DOMAIN dd
            /\ \A k \in DOMAIN pops :
                dd[DDKey(genotypes[i], i - 1)].calls[pops[k].name] =
                    << args.ploidy * H0(genotypes[i], pops[k].inds) + HET(genotypes[i], pops[k].inds),
                       args.ploidy * H1(genotypes[i], pops[k].inds) + HET(genotypes[i], pops[k].inds) >>

\* C1 witness: a population of two individuals, one heterozygous and one with
\* an unrecognised field, has been counted with ploidy 2.
C1_Witness ==
    /\ pc = "done"
    /\ args.ploidy = 2
    /\ \E k \in DOMAIN pops :
        /\ Len(pops[k].inds) = 2
        /\ genotypes[1].gt[pops[k].inds[1]] = <<"0","/","1",":","9">>
        /\ genotypes[1].gt[pops[k].inds[2]] = <<".","/",".">>
        /\ dd[DDKey(genotypes[1], 0)].calls[pops[k].name] = <<1, 1>>

(***************************************************************************)
(* The spectrum engine: dadi.Spectrum.from_data_dict and Spectrum.to_file, *)
(* called at lines 64-71, 105-112 and 159-167.  A spectrum is a function   *)
(* from cells (one derived-allele count per population of the call, in the *)
(* order of the call) to values.  The data dictionaries used here hold     *)
(* variants called in every chromosome of the projection, for which the    *)
(* projection is exact: a variant adds one to the cell of its alternate    *)
(* counts.  Values are kept in halves of a variant (2 is one variant),     *)
(* since folding gives half of an ambiguous variant to each of two cells.  *)
(***************************************************************************)
RECURSIVE Cells(_)
Cells(projections) ==
    IF projections = <<>> THEN {<<>>}
    ELSE {<<k>> \o c : k \in 0..Head(projections), c \in Cells(Tail(projections))}

RECURSIVE NumCells(_)
NumCells(projections) ==
    IF projections = <<>> THEN 1 ELSE (Head(projections) + 1) * NumCells(Tail(projections))

ReverseCell(c, projections) == [j \in DOMAIN c |-> projections[j] - c[j]]

\* Spectrum.fold: a cell holding more than half of the chromosomes is folded
\* onto its reverse; a cell holding exactly half shares with its reverse.
Fold(fs, projections) ==
    LET total == SumSeq(projections)
    IN  [c \in Cells(projections) |->
            LET r == ReverseCell(c, projections)
            IN  IF 2 * SumSeq(c) < total THEN fs[c] + fs[r]
                ELSE IF 2 * SumSeq(c) = total THEN (fs[c] + fs[r]) \div 2
                ELSE 0]

from_data_dict(d, pop_ids, projections, polarized) ==
    LET counted == [c \in Cells(projections) |->
            2 * Cardinality({key \in DOMAIN d :
                \A j \in DOMAIN pop_ids :
                    d[key].calls[pop_ids[j]] = <<projections[j] - c[j], c[j]>>})]
    IN  IF polarized THEN counted ELSE Fold(counted, projections)

\* numpy.rint on a value kept in halves: halves round to the even integer.
Rint(v) ==
    IF v % 2 = 0 THEN v
    ELSE IF ((v - 1) \div 2) % 2 = 0 THEN v - 1 ELSE v + 1

\* lines 108-110: integer bins when --dtype is "int".
CastDtype(fs, dtype) == IF dtype = "int" THEN [c \in DOMAIN fs |-> Rint(fs[c])] ELSE fs

\* The cell at a position (from 0) of the row-major flattening.
RECURSIVE Unflatten(_, _)
Unflatten(idx, projections) ==
    IF projections = <<>> THEN <<>>
    ELSE LET stride == NumCells(Tail(projections))
         IN  <<idx \div stride>> \o Unflatten(idx % stride, Tail(projections))

\* Spectrum.to_file: the shape, folded marker and population names; the
\* values flattened in row-major order (the last population's count varies
\* fastest); the mask (not read back by the script).
NativeFile(fs, pop_ids, projections, polarized) ==
    [ shape |-> [j \in DOMAIN projections |-> projections[j] + 1],
      folded |-> ~polarized,
      pop_ids |-> pop_ids,
      data |-> [p \in 1..NumCells(projections) |-> fs[Unflatten(p - 1, projections)]] ]

\* What is at a path of the output tree: a directory (os.mkdir) or a regular
\* file with its content (open(path, 'w'), Spectrum.to_file).
Dir == [kind |-> "dir"]
File(content) == [kind |-> "file", content |-> content]

(***************************************************************************)
(* dadi_twoD_sfs_combinations (src/easySFS.py 84-148)                      *)
(***************************************************************************)
MaxPops == 3
MaxProj == 2

\* Population names, as text; the first n of them are the populations.
PairPopNames == << <<"A">>, <<"B">>, <<"C">>, <<"D">>, <<"E">> >>

\* itertools.combinations(s, 2): pairs of elements by position, in
\* lexicographic order of the positions.
RECURSIVE Combinations2From(_, _, _)
Combinations2From(s, a, b) ==
    IF a >= Len(s) THEN <<>>
    ELSE IF b > Len(s) THEN Combinations2From(s, a + 1, a + 2)
    ELSE <<(<<s[a], s[b]>>)>> \o Combinations2From(s, a, b + 1)

Combinations2(s) == Combinations2From(s, 1, 2)

PopKeys(ps) == [k \in DOMAIN ps |-> ps[k].name]

\* line 89
popPairs(ps) == Combinations2(PopKeys(ps))

\* A slip that pairs the sample sizes by value instead of by position.
RECURSIVE SortedSeq(_)
SortedSeq(s) ==
    IF s = <<>> THEN <<>>
    ELSE LET m == CHOOSE i \in DOMAIN s : \A j \in DOMAIN s : s[i] <= s[j]
         IN  <<s[m]>> \o SortedSeq([k \in 1..(Len(s) - 1) |-> IF k < m THEN s[k] ELSE s[k + 1]])

projPairsSorted(pr) == Combinations2(SortedSeq(pr))

\* line 93
projPairs(pr) == Combinations2(pr)

\* lines 96-98: population name -> position, from 0.
popidx(ps) ==
    [n \in {ps[k].name : k \in DOMAIN ps} |->
        (CHOOSE k \in DOMAIN ps : ps[k].name = n) - 1]

\* "-".join(names)
RECURSIVE JoinDash(_)
JoinDash(names) ==
    IF names = <<>> THEN <<>>
    ELSE IF Len(names) = 1 THEN names[1]
    ELSE names[1] \o <<"-">> \o JoinDash(Tail(names))

M_or_D(unfold) == IF unfold THEN "D" ELSE "M"

\* A path is a sequence of component texts; os.path.join appends.
\* line 104
dadi_joint_filename(outdir, pair) ==
    outdir \o << <<"dadi">>, JoinDash(pair) \o <<".sfs">> >>

\* line 118
fsc_twoD_filename(outdir, prefix, unfold, ps, pair) ==
    outdir \o
    << <<"fastsimcoal2">>,
      prefix \o <<"_joint", M_or_D(unfold), "AFpop">> \o Str(popidx(ps)[pair[2]])
             \o <<"_">> \o Str(popidx(ps)[pair[1]]) \o <<".obs">> >>

\* "d{}_".format(idx) + str(x) for x in range(n + 1)
Labels(idx, n) == [x \in 1..(n + 1) |-> <<"d">> \o Str(idx) \o <<"_">> \o Str(x - 1)]

\* A slip that cuts the rows at the second population's size.
RowSizeSecond(pp) == pp[2] + 1

\* line 133
row_size(pp) == pp[1] + 1

\* line 135: [row_data[i:i + row_size] for i in range(0, len(row_data), row_size)]
Chunks(row_data, size) ==
    [k \in 1..((Len(row_data) + size - 1) \div size) |->
        SubSeq(row_data, (k - 1) * size + 1,
               IF k * size < Len(row_data) THEN k * size ELSE Len(row_data))]

\* lines 119-148: the lines of the fastsimcoal2 file, and whether the sanity
\* check of line 138 let the rows be written.
FscTwoD(native, ps, pair, pp) ==
    LET head == << [kind |-> "text", text |-> "1 observation"],
                   [kind |-> "columns", labels |-> Labels(popidx(ps)[pair[1]], pp[1])] >>
        row_headers == Labels(popidx(ps)[pair[2]], pp[2])
        rows == Chunks(native.data, row_size(pp))
    IN  IF Len(row_headers) # Len(rows)
        THEN [ok |-> FALSE, lines |-> head]
        ELSE [ok |-> TRUE,
              lines |-> head \o [k \in 1..Len(row_headers) |->
                            [kind |-> "row", label |-> row_headers[k], values |-> rows[k]]]]

InitPairs ==
    /\ pc = "twoD"
    /\ \E n \in 1..MaxPops :
        /\ pops = [k \in 1..n |-> [name |-> PairPopNames[k], inds |-> <<>>]]
        /\ \E pr \in [1..n -> 1..MaxProj] :
            /\ proj = pr
            \* one variant, called in every chromosome, with any alternate counts
            /\ \E alt \in Cells(pr) :
                dd = [key \in {<<"chr1", "-", "7", "-", "0">>} |->
                        [segregating |-> <<"A", "T">>,
                         calls |-> [nm \in {PairPopNames[k] : k \in 1..n} |->
                                      LET k == CHOOSE k \in 1..n : PairPopNames[k] = nm
                                      IN  <<pr[k] - alt[k], alt[k]>>],
                         outgroup_allele |-> "A"]]
    /\ \E u \in BOOLEAN, dt \in {"float", "int"} :
        args = [unfolded |-> u, dtype |-> dt, prefix |-> <<"in">>, outdir |-> << <<"output">> >>]
    /\ genotypes = Unused
    /\ files = EmptyDict
    /\ pair_i = 0
    /\ fs_calls = <<>>
    /\ BootUnused /\ ParUnused /\ SeedUnused /\ MainUnused

\* One iteration of the loop of line 101, for popPairs[pair_i] (from 0).
TwoDPair ==
    /\ pc = "twoD"
    /\ pair_i < Len(popPairs(pops))
    /\ LET pair == popPairs(pops)[pair_i + 1]
           pp == projPairs(proj)[pair_i + 1]
           fs == CastDtype(from_data_dict(dd, pair, pp, args.unfolded), args.dtype)
           native == NativeFile(fs, pair, pp, args.unfolded)
           fsc == FscTwoD(native, pops, pair, pp)
       IN  /\ fs_calls' = Append(fs_calls, [pop_ids |-> pair, projections |-> pp])
           /\ files' = DictPut(DictPut(files, dadi_joint_filename(args.outdir, pair), File(native)),
                               fsc_twoD_filename(args.outdir, args.prefix, args.unfolded, pops, pair),
                               File(fsc.lines))
           /\ pc' = IF fsc.ok THEN "twoD" ELSE "twoD_failed"
    /\ pair_i' = pair_i + 1
    /\ UNCHANGED <<args, pops, genotypes, dd, proj, bootVars, parVars, seedVars, mainVars>>

\* The loop is exhausted and the function returns.
TwoDReturn ==
    /\ pc = "twoD"
    /\ pair_i >= Len(popPairs(pops))
    /\ pc' = "done"
    /\ UNCHANGED <<args, pops, genotypes, dd, proj, files, pair_i, fs_calls, bootVars, parVars, seedVars, mainVars>>

NextPairs == TwoDPair \/ TwoDReturn

SpecPairs == InitPairs /\ [][NextPairs]_vars

\* Position (from 1) of a population name in the population mapping.
PosOf(nm) == CHOOSE k \in DOMAIN pops : pops[k].name = nm

\* C2: every spectrum call of the 2-D loop is for a pair (pops[a], pops[b])
\* with a < b and is given exactly the sample sizes (proj[a], proj[b]); when
\* the loop has ended, C(n,2) calls were made and no unordered pair twice.
C2_PairsMatchProj ==
    /\ \A k \in DOMAIN fs_calls :
        \E a \in DOMAIN pops, b \in DOMAIN pops :
            /\ a < b
            /\ fs_calls[k].pop_ids = <<pops[a].name, pops[b].name>>
            /\ fs_calls[k].projections = <<proj[a], proj[b]>>
    /\ pc = "done" =>
        /\ 2 * Len(fs_calls) = Len(pops) * (Len(pops) - 1)
        /\ \A k \in DOMAIN fs_calls, l \in DOMAIN fs_calls :
            k # l => Range(fs_calls[k].pop_ids) # Range(fs_calls[l].pop_ids)

\* C2 witness: three populations whose sample sizes repeat and are not in
\* increasing order have all been paired.
C2_Witness ==
    /\ pc = "done"
    /\ proj = <<2, 1, 2>>
    /\ Len(fs_calls) = 3
    /\ fs_calls[3].projections = <<1, 2>>

\* The fastsimcoal2 file of the k-th pair, and its data rows.
FscFileOf(k) ==
    files[fsc_twoD_filename(args.outdir, args.prefix, args.unfolded, pops, fs_calls[k].pop_ids)].content
DataRowsOf(k) == SelectSeq(FscFileOf(k), LAMBDA ln : ln.kind = "row")
ColumnsOf(k) == SelectSeq(FscFileOf(k), LAMBDA ln : ln.kind = "columns")

\* The spectrum the k-th call returned, as written to the native file.
TensorOf(k) ==
    CastDtype(from_data_dict(dd, fs_calls[k].pop_ids, fs_calls[k].projections, args.unfolded),
              args.dtype)

\* C3: in the pairwise-matrix file of every processed pair (first, second),
\* the value in the row labelled d{index(second)}_r under the column labelled
\* d{index(first)}_c is the spectrum's entry for count c in the first and r
\* in the second population.
C3_CellAtLabels ==
    \A k \in DOMAIN fs_calls :
        LET first == fs_calls[k].pop_ids[1]
            second == fs_calls[k].pop_ids[2]
            pp == fs_calls[k].projections
        IN  \A c \in 0..pp[1], r \in 0..pp[2] :
                \E col \in DOMAIN ColumnsOf(k)[1].labels, row \in DOMAIN DataRowsOf(k) :
                    /\ ColumnsOf(k)[1].labels[col] =
                           <<"d">> \o Str(PosOf(first) - 1) \o <<"_">> \o Str(c)
                    /\ DataRowsOf(k)[row].label =
                           <<"d">> \o Str(PosOf(second) - 1) \o <<"_">> \o Str(r)
                    /\ col \in DOMAIN DataRowsOf(k)[row].values
                    /\ DataRowsOf(k)[row].values[col] = TensorOf(k)[<<c, r>>]

\* C4: the pairwise-matrix file of every processed pair has proj[second]+1
\* data rows of proj[first]+1 values each under proj[first]+1 column labels,
\* and the row-count sanity check never fails.
C4_RowsAndColumns ==
    /\ pc # "twoD_failed"
    /\ \A k \in DOMAIN fs_calls :
        LET a == PosOf(fs_calls[k].pop_ids[1])
            b == PosOf(fs_calls[k].pop_ids[2])
        IN  /\ Len(DataRowsOf(k)) = proj[b] + 1
            /\ \A r \in DOMAIN DataRowsOf(k) : Len(DataRowsOf(k)[r].values) = proj[a] + 1
            /\ Len(ColumnsOf(k)) = 1
            /\ Len(ColumnsOf(k)[1].labels) = proj[a] + 1

\* C4 witness: a pair with sample sizes 1 and 2 has its file written, with
\* three rows of two values.
C4_Witness ==
    /\ pc = "done"
    /\ proj = <<1, 2>>
    /\ Len(fs_calls) = 1
    /\ Len(DataRowsOf(1)) = 3
    /\ Len(DataRowsOf(1)[3].values) = 2

(***************************************************************************)
(* Block indexing (main, lines 714-729) and bootstrap_resampling (632-652) *)
(***************************************************************************)
MaxRows == 4
MaxK == 3
MaxSeed == 1
MaxBoot == 2

\* An optional value: Python's None, or a value v as Some(v).
None == <<>>
Some(v) == <<v>>
Val(o) == o[1]

Chroms == {<<"chr1">>, <<"chr2">>}

\* A table row of the bootstrap models: POS is the row's position in the
\* input file, which tells the rows of a chromosome apart.
\* Two individuals are genotyped, one per population of BootPops; the
\* second is homozygous for the alternate allele in the odd rows.
BootRow(c, p) ==
    [CHROM |-> c, POS |-> p, REF |-> "A", ALT |-> "T",
     gt |-> << <<"0","/","1">>,
               IF p % 2 = 1 THEN <<"1","/","1">> ELSE <<"0","|","1">> >>]

BootPops == << [name |-> <<"A">>, inds |-> <<1>>], [name |-> <<"B">>, inds |-> <<2>>] >>

BootTables(lo, hi) ==
    UNION {{[j \in 1..n |-> BootRow(cs[j], j)] : cs \in [1..n -> Chroms]} : n \in lo..hi}

\* A variant that gives the leftover rows the index of the last whole block.
BlockListAbsorbing(n, k) ==
    [p \in 1..((n \div k) * k) |-> (p - 1) \div k]
        \o [p \in 1..(n % k) |-> IF n \div k = 0 THEN 0 ELSE (n \div k) - 1]

\* lines 719-720 and 724-725:
\* [i for i in range(n // k) for _ in range(k)] + [n // k] * (n % k)
BlockList(n, k) ==
    [p \in 1..((n \div k) * k) |-> (p - 1) \div k] \o [p \in 1..(n % k) |-> n \div k]

\* The rows of g (positions) on chromosome c, in table order: a groupby group.
GroupOf(g, c) == SelectSeq([j \in 1..Len(g) |-> j], LAMBDA j : g[j].CHROM = c)

\* Position of x in the sequence s of distinct elements.
IndexIn(s, x) == CHOOSE p \in DOMAIN s : s[p] = x

\* lines 718-729, for a block size k >= 1.
AssignBlocks(g, k) ==
    IF Cardinality({g[j].CHROM : j \in DOMAIN g}) = 1
    THEN BlockList(Len(g), k)
    ELSE [j \in 1..Len(g) |->
            LET grp == GroupOf(g, g[j].CHROM)
            IN  BlockList(Len(grp), k)[IndexIn(grp, j)]]

\* numpy's RandomState(seed): the n draws (positions 1..n) that
\* DataFrame.sample(frac=1, replace=True, random_state=seed) takes from a
\* table of n rows are a fixed function of the integer seed.  A linear
\* congruential generator stands for it.
RECURSIVE LcgDraws(_, _, _)
LcgDraws(x, n, left) ==
    IF left = 0 THEN <<>>
    ELSE LET y == (5 * x + 3) % 16
         IN  <<(y % n) + 1>> \o LcgDraws(y, n, left - 1)

RandomStateDraws(seed, n) == LcgDraws(seed % 16, n, n)

\* lines 635-639: with -s the draws are those of seed + rep; without, the
\* generator is seeded from the operating system and any draws can come.
SampleDraws(seed, r, n) ==
    IF seed # None THEN {RandomStateDraws(Val(seed) + r, n)} ELSE [1..n -> 1..n]

\* line 643: genotypes.sample(frac=1, replace=True)
SampleRows(g, draws) == [j \in 1..Len(g) |-> g[draws[j]]]

RECURSIVE DropDuplicates(_)
\* DataFrame.drop_duplicates: first occurrences, in order.
DropDuplicates(s) ==
    IF s = <<>> THEN <<>>
    ELSE LET rest == DropDuplicates(SubSeq(s, 1, Len(s) - 1))
             last == s[Len(s)]
         IN  IF last \in Range(rest) THEN rest ELSE Append(rest, last)

\* line 646: genotypes.assign(block_index=...)[["#CHROM", "block_index"]]
ChromBlock(g, bi) == [j \in 1..Len(g) |-> <<g[j].CHROM, bi[j]>>]

\* lines 646-647: the sampled (chromosome, block) pairs.
SampleBlocks(g, bi, draws) ==
    LET keys == DropDuplicates(ChromBlock(g, bi))
    IN  [j \in 1..Len(keys) |-> keys[draws[j]]]

\* Number of positions of s holding x.
CountIn(s, x) == Cardinality({p \in DOMAIN s : s[p] = x})

RECURSIVE Repeat(_, _)
Repeat(x, m) == IF m = 0 THEN <<>> ELSE <<x>> \o Repeat(x, m - 1)

\* A slip that merges on the distinct drawn blocks only.
RECURSIVE MergeBlocksOnce(_, _, _)
MergeBlocksOnce(g, bi, ri) ==
    IF g = <<>> THEN <<>>
    ELSE MergeBlocksOnce(SubSeq(g, 1, Len(g) - 1), SubSeq(bi, 1, Len(bi) - 1), ri)
         \o (IF <<g[Len(g)].CHROM, bi[Len(g)]>> \in Range(ri) THEN <<g[Len(g)]>> ELSE <<>>)

\* lines 648-649: the inner merge of the table with the drawn pairs on
\* (chromosome, block): every row once for each drawn pair equal to its own.
RECURSIVE MergeBlocks(_, _, _)
MergeBlocks(g, bi, ri) ==
    IF g = <<>> THEN <<>>
    ELSE MergeBlocks(SubSeq(g, 1, Len(g) - 1), SubSeq(bi, 1, Len(bi) - 1), ri)
         \o Repeat(g[Len(g)], CountIn(ri, <<g[Len(g)].CHROM, bi[Len(g)]>>))

InitBoot ==
    /\ pc = "block_index"
    /\ genotypes \in BootTables(1, MaxRows)
    /\ \E k \in {None} \cup {Some(x) : x \in 1..MaxK},
          sd \in {None} \cup {Some(x) : x \in 0..MaxSeed} :
        args = [block_size |-> k, seed |-> sd]
    /\ rep \in 0..(MaxBoot - 1)
    /\ block_index = None
    /\ resampled_index = None
    /\ resampled = None
    /\ pops = Unused /\ dd = Unused /\ proj = Unused /\ files = Unused
    /\ pair_i = Unused /\ fs_calls = Unused
    /\ ParUnused /\ SeedUnused /\ MainUnused

\* lines 707-709: without -k the SNPs themselves are resampled.
NoBlocks ==
    /\ pc = "block_index"
    /\ args.block_size = None
    /\ block_index' = None
    /\ pc' = "resample"
    /\ UNCHANGED <<args, pops, genotypes, dd, proj, files, pair_i, fs_calls,
                   rep, resampled_index, resampled, parVars, seedVars, mainVars>>

\* lines 713-729
BlockIndexing ==
    /\ pc = "block_index"
    /\ args.block_size # None
    /\ block_index' = AssignBlocks(genotypes, Val(args.block_size))
    /\ pc' = "resample"
    /\ UNCHANGED <<args, pops, genotypes, dd, proj, files, pair_i, fs_calls,
                   rep, resampled_index, resampled, parVars, seedVars, mainVars>>

\* lines 642-643
ResampleSnps ==
    /\ pc = "resample"
    /\ args.block_size = None
    /\ \E draws \in SampleDraws(args.seed, rep, Len(genotypes)) :
        resampled' = SampleRows(genotypes, draws)
    /\ pc' = "done"
    /\ UNCHANGED <<args, pops, genotypes, dd, proj, files, pair_i, fs_calls,
                   block_index, rep, resampled_index, parVars, seedVars, mainVars>>

\* lines 645-649
ResampleBlocks ==
    /\ pc = "resample"
    /\ args.block_size # None
    /\ LET nkeys == Len(DropDuplicates(ChromBlock(genotypes, block_index)))
       IN  \E draws \in SampleDraws(args.seed, rep, nkeys) :
            /\ resampled_index' = SampleBlocks(genotypes, block_index, draws)
            /\ resampled' = MergeBlocks(genotypes, block_index, resampled_index')
    /\ pc' = "done"
    /\ UNCHANGED <<args, pops, genotypes, dd, proj, files, pair_i, fs_calls,
                   block_index, rep, parVars, seedVars, mainVars>>

NextBoot == NoBlocks \/ BlockIndexing \/ ResampleSnps \/ ResampleBlocks

SpecBoot == InitBoot /\ [][NextBoot]_vars

\* The rows of chromosome c, and a row's rank (from 0) among them.
RowsOn(c) == {j \in DOMAIN genotypes : genotypes[j].CHROM = c}
RankOf(j) == Cardinality({i \in RowsOn(genotypes[j].CHROM) : i < j})
BlocksOn(c) == {block_index[j] : j \in RowsOn(c)}
Blocked == pc \in {"resample", "done"} /\ args.block_size # None
Max2(a, b) == IF a >= b THEN a ELSE b

\* C8 as stated: the leftover rows of a chromosome join its final whole
\* block, so a chromosome of n rows has max(1, n div k) blocks.
C8_LeftoverAbsorbed ==
    Blocked =>
        \A c \in {genotypes[j].CHROM : j \in DOMAIN genotypes} :
            Cardinality(BlocksOn(c)) = Max2(1, Cardinality(RowsOn(c)) \div Val(args.block_size))

\* C8, amended: every row has a block index; the rows of a chromosome are cut,
\* in order, into blocks of k rows, the i-th row (from 0) being in block
\* i div k; the n mod k leftover rows form one more, shorter block with index
\* n div k, so the chromosome has ceil(n/k) blocks.
C8_BlockPartition ==
    Blocked =>
        /\ DOMAIN block_index = DOMAIN genotypes
        /\ \A j \in DOMAIN genotypes : block_index[j] = RankOf(j) \div Val(args.block_size)
        /\ \A c \in {genotypes[j].CHROM : j \in DOMAIN genotypes} :
            LET n == Cardinality(RowsOn(c))
                k == Val(args.block_size)
            IN  /\ Cardinality(BlocksOn(c)) = (n + k - 1) \div k
                /\ \A b \in BlocksOn(c) :
                     Cardinality({j \in RowsOn(c) : block_index[j] = b}) =
                        IF b < n \div k THEN k ELSE n % k

\* C8 witness: a table of two chromosomes, one with three rows, is cut with
\* block size 2: the third row of that chromosome is alone in block 1.
C8_Witness ==
    /\ Blocked
    /\ args.block_size = Some(2)
    /\ Cardinality({genotypes[j].CHROM : j \in DOMAIN genotypes}) = 2
    /\ \E c \in Chroms : Cardinality(RowsOn(c)) = 3 /\ BlocksOn(c) = {0, 1}

\* Number of times table row j is in the replicate.
TimesDrawn(j) == CountIn(resampled, genotypes[j])
SourceKeys == {<<genotypes[j].CHROM, block_index[j]>> : j \in DOMAIN genotypes}
BlockSize(key) ==
    Cardinality({j \in DOMAIN genotypes : <<genotypes[j].CHROM, block_index[j]>> = key})

\* C9 as stated: in block mode, too, the replicate has as many rows as the
\* source table.
C9_RowCountKept ==
    pc = "done" => Len(resampled) = Len(genotypes)

\* C9, amended: without -k the replicate has as many rows as the source.
\* With -k as many blocks are drawn as the source has (chromosome, block)
\* pairs, every row is in the replicate once for each draw of its block and
\* no other row is, so the replicate holds no more distinct blocks than the
\* source and its row count is the sum of the sizes of the drawn blocks: the
\* source's row count when the blocks are all of one size.
C9_ResampledSize ==
    pc = "done" =>
        IF args.block_size = None
        THEN /\ Len(resampled) = Len(genotypes)
             /\ Range(resampled) \subseteq Range(genotypes)
        ELSE /\ Len(resampled_index) = Cardinality(SourceKeys)
             /\ Range(resampled_index) \subseteq SourceKeys
             /\ \A j \in DOMAIN genotypes :
                    TimesDrawn(j) = CountIn(resampled_index, <<genotypes[j].CHROM, block_index[j]>>)
             /\ Range(resampled) \subseteq Range(genotypes)
             /\ Cardinality(Range(resampled_index)) <= Cardinality(SourceKeys)
             /\ Len(resampled) =
                    SumSeq([d \in DOMAIN resampled_index |-> BlockSize(resampled_index[d])])
             /\ (\A x \in SourceKeys, y \in SourceKeys : BlockSize(x) = BlockSize(y))
                    => Len(resampled) = Len(genotypes)

\* C9 witness: three rows of one chromosome in blocks of two; the whole block
\* was drawn twice, so the replicate has four rows.
C9_Witness ==
    /\ pc = "done"
    /\ args.block_size = Some(2)
    /\ Len(genotypes) = 3
    /\ resampled_index = << <<(<<"chr1">>), 0>>, <<(<<"chr1">>), 0>> >>
    /\ Len(resampled) = 4

(***************************************************************************)
(* The output tree and create_sfs (src/easySFS.py 590-629)                 *)
(***************************************************************************)

\* A path is a sequence of component texts; <<>> is the working directory.
Parent(path) == SubSeq(path, 1, Len(path) - 1)
IsPrefix(p, q) == Len(p) <= Len(q) /\ SubSeq(q, 1, Len(p)) = p

\* os.path.exists and os.path.isdir
Exists(fsys, path) == path = <<>> \/ path \in DOMAIN fsys
IsDir(fsys, path) == path = <<>> \/ (path \in DOMAIN fsys /\ fsys[path].kind = "dir")

\* shutil.rmtree(path): path and everything below it is gone.
Rmtree(fsys, path) == [q \in {q \in DOMAIN fsys : ~IsPrefix(path, q)} |-> fsys[q]]

\* The operations a function performs on the tree, in program order.  An
\* operation that writes a spectrum carries the from_data_dict call made for it.
Mkdir(path) == [op |-> "mkdir", path |-> path, put |-> Dir, call |-> None]
MkdirIfAbsent(path) == [op |-> "mkdir_if_absent", path |-> path, put |-> Dir, call |-> None]
Write(path, content) == [op |-> "write", path |-> path, put |-> File(content), call |-> None]
ToFile(path, native) ==
    [op |-> "write", path |-> path, put |-> File(native),
     call |-> Some([pop_ids |-> native.pop_ids,
                    projections |-> [j \in DOMAIN native.shape |-> native.shape[j] - 1]])]

\* os.mkdir raises when the path exists or its parent is no directory;
\* open(path, 'w') raises when the parent is no directory or the path is one.
Raises(fsys, o) ==
    \/ ~IsDir(fsys, Parent(o.path))
    \/ o.op = "mkdir" /\ Exists(fsys, o.path)
    \/ o.op = "write" /\ IsDir(fsys, o.path)

Effect(fsys, o) ==
    IF o.op = "mkdir_if_absent" /\ Exists(fsys, o.path) THEN fsys
    ELSE DictPut(fsys, o.path, o.put)

\* The paths a sequence of operations opens for writing, in order.
OpenedBy(ops) ==
    LET w == SelectSeq(ops, LAMBDA o : o.op = "write")
    IN  [n \in DOMAIN w |-> w[n].path]

\* The spectrum calls of a sequence of operations.
RECURSIVE CallsOf(_)
CallsOf(ops) ==
    IF ops = <<>> THEN <<>>
    ELSE (IF Head(ops).call = None THEN <<>> ELSE <<Val(Head(ops).call)>>) \o CallsOf(Tail(ops))

\* Run operations in order until one raises: whether all were done, the
\* tree left behind, and the operations attempted.
RECURSIVE RunOps(_, _, _)
RunOps(fsys, ops, n) ==
    IF n > Len(ops) THEN [ok |-> TRUE, files |-> fsys, tried |-> ops]
    ELSE IF Raises(fsys, ops[n]) THEN [ok |-> FALSE, files |-> fsys, tried |-> SubSeq(ops, 1, n)]
    ELSE RunOps(Effect(fsys, ops[n]), ops, n + 1)

RECURSIVE Concat(_)
Concat(ss) == IF ss = <<>> THEN <<>> ELSE Head(ss) \o Concat(Tail(ss))

\* lines 64-71, 105-112, 159-167: the spectrum of a call, as to_file writes it.
SpectrumOf(d, pop_ids, projections, a) ==
    NativeFile(CastDtype(from_data_dict(d, pop_ids, projections, a.unfolded), a.dtype),
               pop_ids, projections, a.unfolded)

\* line 62
dadi_oneD_filename(outdir, pop, p) ==
    outdir \o << <<"dadi">>, pop \o <<"-">> \o Str(p) \o <<".sfs">> >>

\* line 74
fsc_oneD_filename(outdir, pop, unfold) ==
    outdir \o << <<"fastsimcoal2">>, pop \o <<"_", M_or_D(unfold), "AFpop0.obs">> >>

\* dadi_oneD_sfs_per_pop (55-81)
OneDOps(d, ps, pr, a, outdir) ==
    Concat([i \in 1..Len(ps) |->
        LET pop == ps[i].name
            native == SpectrumOf(d, <<pop>>, <<pr[i]>>, a)
        IN  << ToFile(dadi_oneD_filename(outdir, pop, pr[i]), native),
               Write(fsc_oneD_filename(outdir, pop, a.unfolded),
                     << [kind |-> "text", text |-> "1 observation"],
                        [kind |-> "columns", labels |-> Labels(0, pr[i])],
                        [kind |-> "data", values |-> native.data] >>) >>])

\* dadi_twoD_sfs_combinations (84-148): the loop from pair i on; a failed
\* sanity check (line 138) returns from the function.
RECURSIVE TwoDOpsFrom(_, _, _, _, _, _)
TwoDOpsFrom(d, ps, pr, a, outdir, i) ==
    IF i > Len(popPairs(ps)) THEN <<>>
    ELSE LET pair == popPairs(ps)[i]
             pp == projPairs(pr)[i]
             native == SpectrumOf(d, pair, pp, a)
             fsc == FscTwoD(native, ps, pair, pp)
         IN  << ToFile(dadi_joint_filename(outdir, pair), native),
                Write(fsc_twoD_filename(outdir, a.prefix, a.unfolded, ps, pair), fsc.lines) >>
             \o (IF fsc.ok THEN TwoDOpsFrom(d, ps, pr, a, outdir, i + 1) ELSE <<>>)

TwoDOps(d, ps, pr, a, outdir) == TwoDOpsFrom(d, ps, pr, a, outdir, 1)

\* line 156
dadi_multi_filename(outdir, ps) ==
    outdir \o << <<"dadi">>, JoinDash(PopKeys(ps)) \o <<".sfs">> >>

\* line 170
fsc_multi_filename(outdir, prefix) ==
    outdir \o << <<"fastsimcoal2">>, prefix \o <<"_MSFS.obs">> >>

\* dadi_multiSFS (151-177)
MultiOps(d, ps, pr, a, outdir) ==
    LET native == SpectrumOf(d, PopKeys(ps), pr, a)
    IN  << ToFile(dadi_multi_filename(outdir, ps), native),
           Write(fsc_multi_filename(outdir, a.prefix),
                 << [kind |-> "text",
                     text |-> "1 observations. No. of demes and sample sizes are on next line."],
                    [kind |-> "sizes", demes |-> Len(ps), sizes |-> pr],
                    [kind |-> "data", values |-> native.data] >>) >>

\* lines 622-629 with dadi_to_momi (180-270): when momi can be imported the
\* momi directory is made if missing (186-188); the conversion then stops at
\* the undefined name of line 225 and the bare except of create_sfs
\* swallows the error.
MomiOps(a, outdir) ==
    IF a.momi THEN << MkdirIfAbsent(outdir \o << <<"momi">> >>) >> ELSE <<>>

\* create_sfs (590-629): whether it ends in sys.exit (line 607), and its
\* operations on the tree, grouped by the statement that performs them.
create_sfs(outdir, g, ps, a) ==
    LET d == make_datadict(g, ps, a.ploidy)
        pr == Val(a.projections)
        head == << << Mkdir(outdir \o << <<"dadi">> >>),
                      Mkdir(outdir \o << <<"fastsimcoal2">> >>) >>,
                   << Write(outdir \o << <<"datadict.txt">> >>, d) >> >>
    IN  IF Len(ps) # Len(pr)
        THEN [exits |-> TRUE, phases |-> head]
        ELSE [exits |-> FALSE,
              phases |-> head \o << OneDOps(d, ps, pr, a, outdir),
                                    TwoDOps(d, ps, pr, a, outdir),
                                    MultiOps(d, ps, pr, a, outdir),
                                    MomiOps(a, outdir) >>]

\* argparse defaults (parse_command_line, 503-567); momi tells whether the
\* momi package can be imported where the program runs.
DefaultArgs ==
    [preview |-> FALSE, projections |-> None, force |-> FALSE, bootstrap |-> None,
     block_size |-> None, seed |-> None, threads |-> None, all_snps |-> FALSE,
     unfolded |-> FALSE, dtype |-> "float", ploidy |-> 2,
     prefix |-> <<"in">>, outdir |-> << <<"output">> >>, momi |-> FALSE]

\* A slip that leaves the replicate index out of the directory name.
BootrepDirShared(outdir, r) == outdir \o << <<"bootrep">> >>

\* line 651
bootrep_dir(outdir, r) == outdir \o << <<"bootrep">> \o Str(r) >>

\* lines 641-649: the replicate tables that can be drawn for replicate r.
Resamples(g, bi, a, r) ==
    IF a.block_size = None
    THEN {SampleRows(g, draws) : draws \in SampleDraws(a.seed, r, Len(g))}
    ELSE {MergeBlocks(g, bi, SampleBlocks(g, bi, draws)) :
            draws \in SampleDraws(a.seed, r, Len(DropDuplicates(ChromBlock(g, bi))))}

(***************************************************************************)
(* The replicate workers (main, lines 731-745): joblib runs                *)
(* bootstrap_resampling(rep=i) for every i in its own process; without -t  *)
(* the calls are made one after the other.                                 *)
(***************************************************************************)

\* The tables the replicates are drawn from: two rows, the first on chr1.
ParTables == {t \in BootTables(2, 2) : t[1].CHROM = <<"chr1">>}

\* The tree main has made when the replicates start: init (578), then
\* lines 704-705 for the original data.
OriginalTree(g, ps, a) ==
    LET orig == a.outdir \o << <<"original">> >>
    IN  RunOps(EmptyDict,
               << Mkdir(a.outdir), Mkdir(orig) >> \o Concat(create_sfs(orig, g, ps, a).phases),
               1).files

\* bootstrap_resampling after the draw: line 651, then create_sfs (652).
ReplicatePhases(outdir, r, table, ps, a) ==
    << << Mkdir(bootrep_dir(outdir, r)) >> >>
        \o create_sfs(bootrep_dir(outdir, r), table, ps, a).phases

InitPar ==
    /\ pc = "replicates"
    \* momi can be imported, so that every statement of create_sfs acts
    /\ \E b \in 1..MaxBoot, th \in {None, Some(2)},
          ks \in ({None} \X ({None} \cup {Some(x) : x \in 0..MaxSeed}))
                 \cup ({Some(x) : x \in 1..MaxK} \X {Some(x) : x \in 0..MaxSeed}) :
        /\ args = [DefaultArgs EXCEPT !.projections = Some(<<2, 2>>), !.bootstrap = Some(b),
                                      !.block_size = ks[1], !.seed = ks[2],
                                      !.threads = th, !.momi = TRUE, !.all_snps = TRUE]
        /\ workers = [i \in 0..(b - 1) |-> [pc |-> "resample", resampled |-> None, todo |-> <<>>]]
    /\ pops = BootPops
    /\ genotypes \in ParTables
    /\ block_index = IF args.block_size = None THEN None
                     ELSE AssignBlocks(genotypes, Val(args.block_size))
    /\ files = OriginalTree(genotypes, pops, args)
    /\ writes = {}
    /\ dd = Unused /\ proj = Unused /\ pair_i = Unused /\ fs_calls = Unused
    /\ rep = Unused /\ resampled_index = Unused /\ resampled = Unused
    /\ SeedUnused /\ MainUnused

\* Without -t replicate i is started when the replicates before it are done.
MayRun(i) ==
    args.threads = None => \A j \in DOMAIN workers : j < i => workers[j].pc = "done"

\* lines 634-649 in worker i: the draw is local to the worker.
WorkerResample(i) ==
    /\ pc = "replicates"
    /\ workers[i].pc = "resample"
    /\ MayRun(i)
    /\ \E table \in Resamples(genotypes, block_index, args, i) :
        workers' = [workers EXCEPT ![i] =
            [pc |-> "write", resampled |-> Some(table),
             todo |-> ReplicatePhases(args.outdir, i, table, pops, args)]]
    /\ UNCHANGED <<pc, args, pops, genotypes, dd, proj, files, pair_i, fs_calls,
                   bootVars, writes, seedVars, mainVars>>

\* The next statement of worker i that touches the tree: line 651, then
\* the statements of create_sfs.
WorkerWrite(i) ==
    /\ pc = "replicates"
    /\ workers[i].pc = "write"
    /\ LET r == RunOps(files, Head(workers[i].todo), 1)
           rest == Tail(workers[i].todo)
       IN  /\ files' = r.files
           /\ writes' = writes \cup {<<i, r.tried[n].path>> : n \in DOMAIN r.tried}
           /\ workers' = [workers EXCEPT ![i].todo = rest,
                                         ![i].pc = IF ~r.ok THEN "failed"
                                                   ELSE IF rest = <<>> THEN "done" ELSE "write"]
    /\ UNCHANGED <<pc, args, pops, genotypes, dd, proj, pair_i, fs_calls,
                   bootVars, seedVars, mainVars>>

\* Parallel(...) returns, or the serial loop ends (line 745); an exception
\* of a replicate is raised in main.
ParJoin ==
    /\ pc = "replicates"
    /\ \A i \in DOMAIN workers : workers[i].pc \in {"done", "failed"}
    /\ pc' = IF \E i \in DOMAIN workers : workers[i].pc = "failed" THEN "crash" ELSE "done"
    /\ UNCHANGED <<args, pops, genotypes, dd, proj, files, pair_i, fs_calls,
                   bootVars, parVars, seedVars, mainVars>>

NextPar ==
    \/ \E i \in DOMAIN workers : WorkerResample(i)
    \/ \E i \in DOMAIN workers : WorkerWrite(i)
    \/ ParJoin

SpecPar == InitPar /\ [][NextPar]_vars

\* The directories directly under the output directory.
TopDirs ==
    {p \in DOMAIN files :
        Len(p) = Len(args.outdir) + 1 /\ IsPrefix(args.outdir, p) /\ files[p].kind = "dir"}

\* The tree of the serial execution: the calls bootstrap_resampling(rep=i),
\* i = 0, 1, ..., each run to its end before the next, on the tables drawn.
RECURSIVE SerialTree(_, _)
SerialTree(fsys, i) ==
    IF i \notin DOMAIN workers THEN fsys
    ELSE SerialTree(
            RunOps(fsys,
                   Concat(ReplicatePhases(args.outdir, i, Val(workers[i].resampled), pops, args)),
                   1).files,
            i + 1)

\* C7: in every interleaving of the replicate workers, a worker creates and
\* writes paths inside its own bootrep<i> directory only, no path is touched
\* by two workers, no worker fails, and its table is a draw from the source
\* table alone; when all have ended the directories under the output
\* directory are original and bootrep0 .. bootrep(R-1), and the tree is the
\* one the serial execution leaves for the same draws.
C7_ParallelAsSerial ==
    /\ \A w \in writes : IsPrefix(bootrep_dir(args.outdir, w[1]), w[2])
    /\ \A w1 \in writes, w2 \in writes : w1[2] = w2[2] => w1[1] = w2[1]
    /\ \A i \in DOMAIN workers :
        /\ workers[i].pc # "failed"
        /\ workers[i].resampled # None =>
              Val(workers[i].resampled) \in Resamples(genotypes, block_index, args, i)
    /\ pc # "crash"
    /\ pc = "done" =>
        /\ TopDirs = {args.outdir \o << <<"original">> >>}
                        \cup {bootrep_dir(args.outdir, i) : i \in DOMAIN workers}
        /\ files = SerialTree(OriginalTree(genotypes, pops, args), 0)

\* C7 witness: two parallel replicates with different tables have ended and
\* each has left its own datadict.txt.
C7_Witness ==
    /\ pc = "done"
    /\ args.threads # None
    /\ DOMAIN workers = {0, 1}
    /\ workers[0].resampled # workers[1].resampled
    /\ \A i \in {0, 1} :
        /\ <<i, bootrep_dir(args.outdir, i) \o << <<"datadict.txt">> >> >> \in writes
        /\ files[bootrep_dir(args.outdir, i) \o << <<"datadict.txt">> >>].content =
              make_datadict(Val(workers[i].resampled), pops, args.ploidy)

(***************************************************************************)
(* read_input (src/easySFS.py 312-380) and two runs of the program on the  *)
(* same file with the same -s: a run reads the table, indexes the blocks   *)
(* and writes the replicates 0, 1, ...                                     *)
(***************************************************************************)

\* The orders in which a set can be iterated.
Orders(S) ==
    {s \in [1..Cardinality(S) -> S] : \A i, j \in 1..Cardinality(S) : i # j => s[i] # s[j]}

\* line 343: the loci are the distinct values of the first column.
Loci(lines) == {lines[j].CHROM : j \in DOMAIN lines}

\* lines 340-355: with -a every data line is kept.  Without, loc_dict gets
\* its keys in the iteration order of the set loci_nums, which the hash
\* seed of the interpreter decides, and np.random.choice, never seeded,
\* picks one line of every locus: any order and any picks can come.
read_input(lines, all_snps) ==
    IF all_snps THEN {lines}
    ELSE {[k \in 1..Len(o) |-> lines[pick[o[k]]]] :
            o \in Orders(Loci(lines)),
            pick \in {f \in [Loci(lines) -> DOMAIN lines] :
                        \A c \in Loci(lines) : lines[f[c]].CHROM = c}}

\* lines 364-371: sampling one SNP per locus stops a file of a single locus.
OneLocusExit(lines, all_snps) == ~all_snps /\ Cardinality(Loci(lines)) = 1

\* The files bootstrap_resampling leaves for replicate r in a fresh output
\* directory.
ReplicateFiles(r, table, ps, a) ==
    RunOps(DictPut(EmptyDict, a.outdir, Dir),
           Concat(ReplicatePhases(a.outdir, r, table, ps, a)), 1).files

InitSeed ==
    /\ pc = "two_runs"
    /\ vcf \in BootTables(2, 3)
    /\ \E b \in 1..MaxBoot, a \in BOOLEAN, sd \in 0..MaxSeed, k \in {None, Some(1)} :
        args = [DefaultArgs EXCEPT !.projections = Some(<<2, 2>>), !.bootstrap = Some(b),
                                   !.seed = Some(sd), !.block_size = k, !.all_snps = a]
    /\ pops = BootPops
    /\ runs = [r \in 1..2 |->
                [pc |-> "read_input", genotypes |-> None, block_index |-> None, out |-> <<>>]]
    /\ genotypes = Unused /\ dd = Unused /\ proj = Unused /\ files = Unused
    /\ pair_i = Unused /\ fs_calls = Unused
    /\ BootUnused /\ ParUnused /\ MainUnused

\* line 681 in run r
SeedReadInput(r) ==
    /\ runs[r].pc = "read_input"
    /\ IF OneLocusExit(vcf, args.all_snps)
       THEN runs' = [runs EXCEPT ![r].pc = "exit_one_locus"]
       ELSE \E table \in read_input(vcf, args.all_snps) :
                runs' = [runs EXCEPT ![r].pc = "block_index", ![r].genotypes = Some(table)]
    /\ UNCHANGED <<pc, args, pops, genotypes, dd, proj, files, pair_i, fs_calls,
                   bootVars, parVars, vcf, mainVars>>

\* lines 707-729 in run r
SeedBlockIndex(r) ==
    /\ runs[r].pc = "block_index"
    /\ runs' = [runs EXCEPT
            ![r].pc = "replicates",
            ![r].block_index =
                IF args.block_size = None THEN None
                ELSE AssignBlocks(Val(runs[r].genotypes), Val(args.block_size))]
    /\ UNCHANGED <<pc, args, pops, genotypes, dd, proj, files, pair_i, fs_calls,
                   bootVars, parVars, vcf, mainVars>>

\* One bootstrap_resampling call of run r (lines 740-744): replicate
\* Len(out), counted from 0.
SeedReplicate(r) ==
    /\ runs[r].pc = "replicates"
    /\ Len(runs[r].out) < Val(args.bootstrap)
    /\ \E table \in Resamples(Val(runs[r].genotypes), runs[r].block_index, args, Len(runs[r].out)) :
        runs' = [runs EXCEPT
            ![r].out = Append(@, ReplicateFiles(Len(runs[r].out), table, pops, args))]
    /\ UNCHANGED <<pc, args, pops, genotypes, dd, proj, files, pair_i, fs_calls,
                   bootVars, parVars, vcf, mainVars>>

\* line 745 in run r
SeedDone(r) ==
    /\ runs[r].pc = "replicates"
    /\ Len(runs[r].out) = Val(args.bootstrap)
    /\ runs' = [runs EXCEPT ![r].pc = "done"]
    /\ UNCHANGED <<pc, args, pops, genotypes, dd, proj, files, pair_i, fs_calls,
                   bootVars, parVars, vcf, mainVars>>

NextSeed ==
    \/ \E r \in 1..2 : SeedReadInput(r)
    \/ \E r \in 1..2 : SeedBlockIndex(r)
    \/ \E r \in 1..2 : SeedReplicate(r)
    \/ \E r \in 1..2 : SeedDone(r)

SpecSeed == InitSeed /\ [][NextSeed]_vars

\* C6: with a base seed, replicate i is drawn with seed base + i, and two
\* runs on the same inputs with the same base seed leave the same files,
\* byte for byte, for every replicate.
C6_SameSeedSameFiles ==
    (runs[1].pc = "done" /\ runs[2].pc = "done") =>
        \A i \in 1..Val(args.bootstrap) : runs[1].out[i] = runs[2].out[i]

(***************************************************************************)
(* main (src/easySFS.py 655-752)                                           *)
(***************************************************************************)

\* The command lines main is run with.  --proj values are the full sample
\* size of a population of one diploid individual; -b, -k and -t are given
\* together with --proj, -a and -s (the draws without -s are those of
\* SpecBoot and SpecPar).
ProjChoices == {Some([k \in 1..m |-> 2]) : m \in 1..MaxPops}

Profiles == {<<TRUE, "int", FALSE>>, <<FALSE, "float", TRUE>>}

MainArgs ==
    LET base(pv, pj, f) == [DefaultArgs EXCEPT !.preview = pv, !.projections = pj, !.force = f]
    IN  {base(TRUE, pj, f) : pj \in ProjChoices \cup {None}, f \in BOOLEAN}
        \cup
        {[base(FALSE, pj, f) EXCEPT !.all_snps = a, !.unfolded = pr[1], !.dtype = pr[2],
                                    !.momi = pr[3]] :
            pj \in ProjChoices \cup {None}, f \in BOOLEAN, a \in BOOLEAN, pr \in Profiles}
        \cup
        {[base(FALSE, pj, f) EXCEPT !.all_snps = TRUE, !.bootstrap = Some(b),
                                    !.block_size = k, !.seed = sd, !.threads = th,
                                    !.unfolded = pr[1], !.dtype = pr[2], !.momi = pr[3]] :
            pj \in ProjChoices, f \in BOOLEAN, b \in 0..MaxBoot,
            k \in {None} \cup {Some(x) : x \in (-1)..MaxK},
            sd \in {Some(MaxSeed)}, th \in {None, Some(2)}, pr \in Profiles}

\* An output directory left by an earlier run.
StaleTree(outdir) ==
    DictPut(DictPut(EmptyDict, outdir, Dir), outdir \o << <<"old.txt">> >>, File(<<"old">>))

\* How the sample columns of the VCF header relate to the individuals
\* 1..n of the populations file.
Scenarios == {"same", "vcf_extra", "first_absent", "last_absent"}

SampleColumns(n, sc) ==
    CASE sc = "same" -> [k \in 1..n |-> k]
      [] sc = "vcf_extra" -> [k \in 1..(n + 1) |-> k]
      [] sc = "first_absent" -> [k \in 1..(n - 1) |-> k + 1]
      [] sc = "last_absent" -> [k \in 1..(n - 1) |-> k]

\* A data line of the VCF: every sample is heterozygous.
VcfRow(c, p, names) ==
    [CHROM |-> c, POS |-> p, REF |-> "A", ALT |-> "T",
     gt |-> [i \in Range(names) |-> <<"0","/","1">>]]

\* The VCF files read: two data lines, on two loci or on one.
MainVcfs(names) ==
    { << VcfRow(<<"chr1">>, 1, names), VcfRow(<<"chr2">>, 2, names) >>,
      << VcfRow(<<"chr1">>, 1, names), VcfRow(<<"chr1">>, 2, names) >> }

\* check_inputs (421-452)
pop_set(ps) == UNION {Range(ps[k].inds) : k \in DOMAIN ps}
vcf_set(names) == Range(names)

\* lines 435-439: the individuals absent from the VCF leave their populations.
RemoveAbsent(ps, names) ==
    [k \in DOMAIN ps |->
        [name |-> ps[k].name,
         inds |-> SelectSeq(ps[k].inds, LAMBDA x : x \in vcf_set(names))]]

RemoveAt(s, e) == [k \in 1..(Len(s) - 1) |-> IF k < e THEN s[k] ELSE s[k + 1]]

\* lines 441-444: pops.pop(k) inside the loop over pops.items().  The
\* OrderedDict iterator raises RuntimeError at its next step after the pop;
\* only when the popped population was the last one does the loop end.
DropEmpty(ps) ==
    LET empty == {k \in DOMAIN ps : ps[k].inds = <<>>}
    IN  IF empty = {} THEN [raises |-> FALSE, pops |-> ps]
        ELSE LET e == CHOOSE k \in empty : \A j \in empty : k <= j
             IN  [raises |-> e # Len(ps), pops |-> RemoveAt(ps, e)]

\* dadi_preview_projections (26-50): the spectrum calls of the preview.
PreviewCalls(ps, ploidy) ==
    Concat([k \in DOMAIN ps |->
        [x \in 1..(ploidy * Len(ps[k].inds) - 1) |->
            [pop_ids |-> <<ps[k].name>>, projections |-> <<x + 1>>]]])

\* A variant that lets every sample-size vector pass main's validation.
NeverInvalid(ps, pr) == FALSE

\* line 694
main_proj_invalid(ps, pr) == ~(Len(ps) = Len(pr))

\* create_sfs called by main or by bootstrap_resampling after the
\* operations before: the tree left, the spectrum calls made, the paths
\* opened for writing and how the call ends.
CallCreateSfs(fsys, before, outdir, g, ps, a) ==
    LET c == create_sfs(outdir, g, ps, a)
        r == RunOps(fsys, before \o Concat(c.phases), 1)
    IN  [files |-> r.files,
         calls |-> CallsOf(r.tried),
         opened |-> OpenedBy(r.tried),
         end |-> IF ~r.ok THEN "OSError"
                 ELSE IF c.exits THEN "exit_proj_mismatch" ELSE "ok"]

\* sys.exit() ends with status 0, sys.exit(msg) and an exception with 1.
ExitStatus(end) == IF end \in {"done", "exit_outdir_exists", "exit_user_no", "exit_preview"}
                   THEN Some(0) ELSE Some(1)

InitMain ==
    /\ pc = "init"
    /\ args \in MainArgs
    /\ files \in {EmptyDict, StaleTree(args.outdir)}
    /\ pops = <<>>
    /\ indnames = <<>>
    /\ genotypes = <<>>
    /\ dd = EmptyDict
    /\ proj = None
    /\ fs_calls = <<>>
    /\ block_index = None
    /\ workers = <<>>
    /\ exit_code = None
    /\ stdout = <<>>
    /\ pair_i = Unused /\ rep = Unused /\ resampled_index = Unused /\ resampled = Unused
    /\ writes = <<>>
    /\ SeedUnused

\* The variables main never uses.
mainIdle == <<pair_i, rep, resampled_index, resampled, seedVars>>

\* A variant of init that never refuses to go on.
InitNeverRefuses(fsys, a) == FALSE

\* lines 573-575: init ends the run when the directory is there and -f is not.
init_refuses(fsys, a) == Exists(fsys, a.outdir) /\ ~a.force

\* lines 659-662 and init (570-578)
MainInit ==
    /\ pc = "init"
    /\ IF args.preview
       THEN /\ pc' = "get_populations"
            /\ UNCHANGED <<files, exit_code, stdout>>
       ELSE IF init_refuses(files, args)
       THEN /\ stdout' = Append(stdout, "Output directory exists. Use -f to override.")
            /\ pc' = "exit_outdir_exists"
            /\ exit_code' = ExitStatus("exit_outdir_exists")
            /\ UNCHANGED files
       ELSE /\ files' = DictPut(Rmtree(files, args.outdir), args.outdir, Dir)
            /\ pc' = "get_populations"
            /\ UNCHANGED <<exit_code, stdout>>
    /\ UNCHANGED <<args, pops, genotypes, dd, proj, fs_calls, block_index, workers,
                   indnames, writes, mainIdle>>

\* lines 667-673: the populations file and the header of the VCF are read.
GetPopulations ==
    /\ pc = "get_populations"
    /\ \E n \in 1..MaxPops, sc \in Scenarios :
        /\ pops' = get_populations([k \in 1..n |-> PairPopNames[k]])
        /\ indnames' = SampleColumns(n, sc)
        \* get_inds_from_input, line 416: no sample names
        /\ IF SampleColumns(n, sc) = <<>>
           THEN pc' = "Exception" /\ exit_code' = ExitStatus("Exception")
           ELSE pc' = "check_inputs" /\ UNCHANGED exit_code
    /\ UNCHANGED <<args, genotypes, dd, proj, files, fs_calls, block_index, workers,
                   stdout, writes, mainIdle>>

\* lines 677-678 and check_inputs (421-452)
CheckInputs ==
    /\ pc = "check_inputs"
    /\ IF args.force \/ pop_set(pops) = vcf_set(indnames)
       THEN pc' = "read_input" /\ UNCHANGED <<pops, stdout, exit_code>>
       ELSE LET d == DropEmpty(RemoveAbsent(pops, indnames))
                said == Append(stdout, "Samples in pops file not present in VCF")
            IN  /\ pops' = d.pops
                /\ IF d.raises
                   THEN /\ pc' = "RuntimeError"
                        /\ exit_code' = ExitStatus("RuntimeError")
                        /\ stdout' = said
                   ELSE \E cont \in {"yes", "no"} :
                        /\ stdout' = Append(said, "Continue, excluding samples? (yes/no)")
                        /\ IF cont = "no"
                           THEN pc' = "exit_user_no" /\ exit_code' = ExitStatus("exit_user_no")
                           ELSE pc' = "read_input" /\ UNCHANGED exit_code
    /\ UNCHANGED <<args, genotypes, dd, proj, files, fs_calls, block_index, workers,
                   indnames, writes, mainIdle>>

\* line 681, read_input (312-380)
ReadInput ==
    /\ pc = "read_input"
    /\ \E lines \in MainVcfs(indnames) :
        IF OneLocusExit(lines, args.all_snps)
        THEN /\ stdout' = Append(stdout, "VCF file uses non-standard Chrom/pos information.")
             /\ pc' = "exit_one_locus"
             /\ exit_code' = ExitStatus("exit_one_locus")
             /\ UNCHANGED genotypes
        ELSE /\ genotypes' \in read_input(lines, args.all_snps)
             /\ pc' = "make_datadict"
             /\ UNCHANGED <<stdout, exit_code>>
    /\ UNCHANGED <<args, pops, dd, proj, files, fs_calls, block_index, workers,
                   indnames, writes, mainIdle>>

\* line 685; row[x] of line 295 raises KeyError for an individual that is
\* no column of the table.
MainMakeDatadict ==
    /\ pc = "make_datadict"
    /\ IF pop_set(pops) \subseteq vcf_set(indnames)
       THEN /\ dd' = make_datadict(genotypes, pops, args.ploidy)
            /\ pc' = "mode"
            /\ UNCHANGED exit_code
       ELSE /\ pc' = "KeyError"
            /\ exit_code' = ExitStatus("KeyError")
            /\ UNCHANGED dd
    /\ UNCHANGED <<args, pops, genotypes, proj, files, fs_calls, block_index, workers,
                   indnames, stdout, writes, mainIdle>>

\* lines 688-690
Preview ==
    /\ pc = "mode"
    /\ args.preview
    /\ fs_calls' = fs_calls \o PreviewCalls(pops, args.ploidy)
    /\ stdout' = Append(stdout, "Running preview mode.")
    /\ pc' = "exit_preview"
    /\ exit_code' = ExitStatus("exit_preview")
    /\ UNCHANGED <<args, pops, genotypes, dd, proj, files, block_index, workers,
                   indnames, writes, mainIdle>>

\* lines 692-699
ValidateProj ==
    /\ pc = "mode"
    /\ ~args.preview
    /\ args.projections # None
    /\ proj' = args.projections
    /\ IF main_proj_invalid(pops, Val(args.projections))
       THEN /\ stdout' = Append(stdout,
                "You must pass in the same number of values for projection as you have populations specified")
            /\ pc' = "exit_proj_mismatch"
            /\ exit_code' = ExitStatus("exit_proj_mismatch")
       ELSE /\ pc' = IF args.bootstrap # None THEN "boot_original" ELSE "plain"
            /\ UNCHANGED <<stdout, exit_code>>
    /\ UNCHANGED <<args, pops, genotypes, dd, files, fs_calls, block_index, workers,
                   indnames, writes, mainIdle>>

\* lines 751-752: the function returns after the message.
NoMode ==
    /\ pc = "mode"
    /\ ~args.preview
    /\ args.projections = None
    /\ stdout' = Append(stdout, "Either --preview or --proj must be specified.")
    /\ pc' = "done"
    /\ exit_code' = ExitStatus("done")
    /\ UNCHANGED <<args, pops, genotypes, dd, proj, files, fs_calls, block_index, workers,
                   indnames, writes, mainIdle>>

\* line 749
Plain ==
    /\ pc = "plain"
    /\ LET r == CallCreateSfs(files, <<>>, args.outdir, genotypes, pops, args)
       IN  /\ files' = r.files
           /\ fs_calls' = fs_calls \o r.calls
           /\ writes' = writes \o r.opened
           /\ pc' = IF r.end = "ok" THEN "done" ELSE r.end
           /\ exit_code' = ExitStatus(pc')
    /\ UNCHANGED <<args, pops, genotypes, dd, proj, block_index, workers,
                   indnames, stdout, mainIdle>>

\* lines 702-705
BootOriginal ==
    /\ pc = "boot_original"
    /\ LET orig == args.outdir \o << <<"original">> >>
           r == CallCreateSfs(files, << Mkdir(orig) >>, orig, genotypes, pops, args)
       IN  /\ files' = r.files
           /\ fs_calls' = fs_calls \o r.calls
           /\ writes' = writes \o r.opened
           /\ pc' = IF r.end = "ok" THEN "block_index" ELSE r.end
           /\ exit_code' = IF r.end = "ok" THEN None ELSE ExitStatus(r.end)
    /\ stdout' = Append(stdout, "Start bootstrap resmpling")
    /\ UNCHANGED <<args, pops, genotypes, dd, proj, block_index, workers,
                   indnames, mainIdle>>

\* The replicates to run: range(args.bootstrap)
ReplicatesToRun ==
    [i \in 0..(Val(args.bootstrap) - 1) |-> [pc |-> "resample", resampled |-> None, todo |-> <<>>]]

\* lines 707-729
MainBlockIndex ==
    /\ pc = "block_index"
    /\ IF args.block_size = None
       THEN /\ block_index' = None
            /\ pc' = "replicates"
            /\ workers' = ReplicatesToRun
            /\ UNCHANGED <<stdout, exit_code>>
       ELSE IF Val(args.block_size) < 0
       THEN /\ stdout' = Append(stdout, "Block size (-k) must be specified as positive value.")
            /\ pc' = "exit_block_size"
            /\ exit_code' = ExitStatus("exit_block_size")
            /\ UNCHANGED <<block_index, workers>>
       ELSE IF Val(args.block_size) = 0
       \* lines 719 and 724: integer division by the block size
       THEN /\ pc' = "ZeroDivisionError"
            /\ exit_code' = ExitStatus("ZeroDivisionError")
            /\ UNCHANGED <<block_index, workers, stdout>>
       ELSE /\ block_index' = AssignBlocks(genotypes, Val(args.block_size))
            /\ pc' = "replicates"
            /\ workers' = ReplicatesToRun
            /\ UNCHANGED <<stdout, exit_code>>
    /\ UNCHANGED <<args, pops, genotypes, dd, proj, files, fs_calls, indnames, writes, mainIdle>>

\* lines 731-744: one call bootstrap_resampling(rep=i), run to its end.
Replicate(i) ==
    /\ pc = "replicates"
    /\ workers[i].pc = "resample"
    /\ MayRun(i)
    /\ \E table \in Resamples(genotypes, block_index, args, i) :
        LET r == CallCreateSfs(files, << Mkdir(bootrep_dir(args.outdir, i)) >>,
                               bootrep_dir(args.outdir, i), table, pops, args)
        IN  /\ files' = r.files
            /\ fs_calls' = fs_calls \o r.calls
            /\ writes' = writes \o r.opened
            /\ workers' = [workers EXCEPT ![i].pc = "done", ![i].resampled = Some(table)]
            /\ pc' = IF r.end = "ok" THEN "replicates" ELSE r.end
            /\ exit_code' = IF r.end = "ok" THEN None ELSE ExitStatus(r.end)
    /\ UNCHANGED <<args, pops, genotypes, dd, proj, block_index, indnames, stdout, mainIdle>>

\* line 745
BootDone ==
    /\ pc = "replicates"
    /\ \A i \in DOMAIN workers : workers[i].pc = "done"
    /\ stdout' = Append(stdout, "Done.")
    /\ pc' = "done"
    /\ exit_code' = ExitStatus("done")
    /\ UNCHANGED <<args, pops, genotypes, dd, proj, files, fs_calls, block_index, workers,
                   indnames, writes, mainIdle>>

Next ==
    \/ MainInit
    \/ GetPopulations
    \/ CheckInputs
    \/ ReadInput
    \/ MainMakeDatadict
    \/ Preview
    \/ ValidateProj
    \/ NoMode
    \/ Plain
    \/ BootOriginal
    \/ MainBlockIndex
    \/ \E i \in DOMAIN workers : Replicate(i)
    \/ BootDone

Spec == InitMain /\ [][Next]_vars

\* What is under the output directory.
OutputPaths == {p \in DOMAIN files : IsPrefix(args.outdir, p) /\ p # args.outdir}

\* The sample-size vector was given (and no preview) with another length
\* than the number of populations.
ProjMismatch ==
    ~args.preview /\ args.projections # None /\ Len(Val(args.projections)) # Len(pops)

\* C5: a run whose --proj vector has another length than the number of
\* populations never reaches the writing of spectra, plain or bootstrap: it
\* ends at main's validation with the message and a failure status, and at
\* that moment nothing is under the output directory (no datadict.txt, no
\* spectrum file) and no spectrum has been computed.
C5_MismatchAbortsFirst ==
    /\ pc = "exit_proj_mismatch" =>
        /\ exit_code = Some(1)
        /\ OutputPaths = {}
        /\ fs_calls = <<>>
        /\ ProjMismatch
        /\ stdout # <<>>
        /\ stdout[Len(stdout)] =
            "You must pass in the same number of values for projection as you have populations specified"
    /\ (pc \in {"plain", "boot_original", "block_index", "replicates", "done",
                "exit_block_size", "ZeroDivisionError", "OSError"})
            => ~ProjMismatch

\* C5 witness: a bootstrap run with three values for two populations has
\* stopped at the validation; only the output directory itself exists.
C5_Witness ==
    /\ pc = "exit_proj_mismatch"
    /\ args.bootstrap # None
    /\ Len(pops) = 2
    /\ Len(proj[1]) = 3
    /\ DOMAIN files = {args.outdir}

\* -b with a block size that is not positive.
BadBlockSize ==
    /\ ~args.preview /\ args.projections # None /\ args.bootstrap # None
    /\ args.block_size # None
    /\ Val(args.block_size) <= 0

\* C10: a bootstrap run with -k <= 0 (0 included) ends with the block-size
\* message and a failure status before anything is written: no original
\* directory, no spectrum, and no replicate is ever started.
C10_BadBlockSizeAbortsFirst ==
    BadBlockSize =>
        /\ pc \notin {"replicates", "ZeroDivisionError"}
        /\ pc = "exit_block_size" =>
            /\ exit_code = Some(1)
            /\ OutputPaths = {}
            /\ fs_calls = <<>>

\* C12: whatever the flags, when the individuals of the populations file are
\* not the sample columns of the VCF, the step after the comparison reports
\* the mismatch, takes the absent individuals out of every population and
\* asks; the run goes on to read the genotypes only on 'yes' and ends on
\* 'no', and a run ended by 'no' has computed no spectrum.
C12_MismatchGated ==
    /\ [][(pc = "check_inputs" /\ pop_set(pops) # vcf_set(indnames)) =>
            /\ pc' \in {"read_input", "exit_user_no"}
            /\ "Samples in pops file not present in VCF" \in Range(stdout')
            /\ "Continue, excluding samples? (yes/no)" \in Range(stdout')
            /\ pop_set(pops') \subseteq vcf_set(indnames)]_vars
    /\ [](pc = "exit_user_no" => fs_calls = <<>> /\ OutputPaths = {})

\* C13: no path is opened for writing twice: the datadict, the native and
\* converted files of the populations, of the pairs and of the joint spectrum
\* all have different names, for any number of populations.
C13_WriteOnce ==
    \A m \in DOMAIN writes, n \in DOMAIN writes : m # n => writes[m] # writes[n]

-----------------------------------------------------------------------------
\* The data dictionary of a resampled table (lines 643, 596, 283-309).
\* A replicate's table is drawn with replacement from the input table, so
\* it repeats rows; the input itself may carry several rows with the same
\* chromosome and position.  make_datadict keys each row's record by
\* chromosome, position and row index.

MaxKeyRows == 3

\* Chromosome names that themselves contain the '-' the key is joined with.
KeyChroms == {<<"1">>, <<"1", "-", "1">>}
KeyPositions == {1, 12}

KeyTables ==
    UNION {{[j \in 1..n |-> BootRow(cs[j], ps[j])] :
                cs \in [1..n -> KeyChroms], ps \in [1..n -> KeyPositions]} :
           n \in 1..MaxKeyRows}

InitKeys ==
    /\ pc = "sample"
    /\ genotypes \in KeyTables
    /\ pops = BootPops
    /\ args = [ploidy |-> 2, seed |-> None]
    /\ resampled = None
    /\ dd = EmptyDict
    /\ proj = Unused /\ files = Unused /\ pair_i = Unused /\ fs_calls = Unused
    /\ block_index = Unused /\ rep = Unused /\ resampled_index = Unused
    /\ ParUnused /\ SeedUnused /\ MainUnused

\* line 643: genotypes.sample(frac=1, replace=True), unseeded
KeysSample ==
    /\ pc = "sample"
    /\ \E draws \in SampleDraws(args.seed, 0, Len(genotypes)) :
        resampled' = Some(SampleRows(genotypes, draws))
    /\ pc' = "make_datadict"
    /\ UNCHANGED <<args, pops, genotypes, dd, proj, files, pair_i, fs_calls,
                   block_index, rep, resampled_index, parVars, seedVars, mainVars>>

\* line 596, on the resampled table
KeysMakeDatadict ==
    /\ pc = "make_datadict"
    /\ dd' = make_datadict(Val(resampled), pops, args.ploidy)
    /\ pc' = "done"
    /\ UNCHANGED <<args, pops, genotypes, proj, files, pair_i, fs_calls,
                   block_index, rep, resampled_index, resampled,
                   parVars, seedVars, mainVars>>

NextKeys == KeysSample \/ KeysMakeDatadict

SpecKeys == InitKeys /\ [][NextKeys]_vars

\* C14: for every variant row of the table the data dictionary holds one
\* record, under a key of its own: rows that share chromosome and position,
\* and rows a resampled table repeats, all keep their record, so the
\* dictionary has as many records as the table has rows and the record
\* under row i's key holds row i's counts.
C14_OneRecordPerRow ==
    pc = "done" =>
        LET t == Val(resampled)
        IN  /\ Cardinality(DOMAIN dd) = Len(t)
            /\ \A i \in DOMAIN t, j \in DOMAIN t :
                   i # j => DDKey(t[i], i - 1) # DDKey(t[j], j - 1)
            /\ \A i \in DOMAIN t :
                   /\ DDKey(t[i], i - 1) \in DOMAIN dd
                   /\ dd[DDKey(t[i], i - 1)].calls = RowCalls(t[i], pops, args.ploidy)

\* A resampled table of three rows repeating one row next to a different
\* one has three records.
C14_Witness ==
    /\ pc = "done"
    /\ Len(Val(resampled)) = 3
    /\ Val(resampled)[1] = Val(resampled)[3]
    /\ Val(resampled)[1] # Val(resampled)[2]
    /\ Cardinality(DOMAIN dd) = 3

-----------------------------------------------------------------------------
\* dadi_to_momi (180-270): the file it is to write and the entries it is to
\* hold.

\* str.split(".sfs")[0]: the text before the first ".sfs".
RECURSIVE BeforeSfs(_)
BeforeSfs(t) ==
    IF t = <<>> \/ Head(t) = ".sfs" THEN <<>> ELSE <<Head(t)>> \o BeforeSfs(Tail(t))

\* lines 189-190: the converted file lies in outdir, under the name of the
\* joint file with "_momi.sfs" in place of ".sfs".
momi_outfile(outdir, infile) ==
    outdir \o << BeforeSfs(infile[Len(infile)]) \o <<"_momi.sfs">> >>

\* lines 224-243, with product read as itertools.product: one entry for each
\* cell that is neither corner and holds a non-zero value; its configuration
\* is, per population, [(n-1)-x, x] with n the population's number of bins.
momi_counts(native) ==
    LET nsamps == native.shape
        sizes == [j \in DOMAIN nsamps |-> nsamps[j] - 1]
        value(c) == native.data[CHOOSE p \in DOMAIN native.data :
                                    Unflatten(p - 1, sizes) = c]
    IN  {[config |-> [j \in DOMAIN c |-> <<(nsamps[j] - 1) - c[j], c[j]>>],
          count |-> value(c)] :
            c \in {c \in Cells(sizes) :
                    /\ c # sizes
                    /\ c # [j \in DOMAIN sizes |-> 0]
                    /\ value(c) # 0}}

\* C15: where momi can be imported, a plain run ends with the converted
\* joint spectrum written: the file of the conversion exists and holds one
\* (configuration, count) entry for every non-zero cell of the joint native
\* file that is neither the all-zero nor the all-maximal cell; where momi
\* cannot be imported the step is skipped; either way the run ends with
\* status 0.
C15_MomiConverted ==
    (pc = "done" /\ ~args.preview /\ args.projections # None /\ args.bootstrap = None) =>
        /\ exit_code = Some(0)
        /\ args.momi =>
            LET infile == dadi_multi_filename(args.outdir, pops)
                outfile == momi_outfile(args.outdir, infile)
            IN  /\ Exists(files, outfile)
                /\ files[outfile].content = momi_counts(files[infile].content)

\* The part of C15 about the missing dependency: without momi a plain run
\* ends with status 0 and nothing of momi in its tree.
C15_SkippedWithoutMomi ==
    (pc = "done" /\ ~args.preview /\ args.projections # None /\ args.bootstrap = None
        /\ ~args.momi) =>
        /\ exit_code = Some(0)
        /\ ~Exists(files, args.outdir \o << <<"momi">> >>)

-----------------------------------------------------------------------------
\* C16: a run given neither --preview nor --proj, once it has said so, has
\* ended with a failure status and has left the tree as it found it: the
\* output directory was neither made nor replaced.
C16_NoModeFailsClean ==
    "Either --preview or --proj must be specified." \in Range(stdout) =>
        /\ exit_code = Some(1)
        /\ files \in {EmptyDict, StaleTree(args.outdir)}

\* C17: the output directory is protected.  A run without -f (and without
\* --preview) that finds the output directory present ends in init with the
\* tree unchanged, and nothing happens after that exit; a --preview run
\* never changes the tree, with or without -f.  So a directory that was
\* there before the run is deleted or changed only under -f.
C17_OutdirProtected ==
    /\ [][(pc = "init" /\ ~args.preview /\ ~args.force /\ Exists(files, args.outdir))
            => (pc' = "exit_outdir_exists" /\ files' = files)]_vars
    /\ [][pc # "exit_outdir_exists"]_vars
    /\ [][args.preview => files' = files]_vars
    /\ [][(pc = "init" /\ Exists(files, args.outdir) /\ files' # files) => args.force]_vars

\* A run without -f has stopped at a directory left by an earlier run, which
\* still holds what it held.
C17_Witness ==
    /\ pc = "exit_outdir_exists"
    /\ ~args.force
    /\ ~args.preview
    /\ files = StaleTree(args.outdir)
    /\ "Output directory exists. Use -f to override." \in Range(stdout)

=============================================================================
